---- MODULE Spec2Model ----
(***************************************************************************)
(* Model of src/app.py: a Flask front-end over the Yandex.Disk public      *)
(* resources API.  One request is served at a time; for each request the   *)
(* model records the query/form parameters, the outbound HTTP calls the    *)
(* handler issued (with the answer the remote side gave to each) and the   *)
(* result the handler produced: a rendered page, a redirect, an attachment *)
(* or an exception that escaped the view function.                         *)
(***************************************************************************)
EXTENDS Naturals, Sequences, FiniteSets

VARIABLES pc, request, calls, result

vars == <<pc, request, calls, result>>

(***************************************************************************)
(* Bounds and input domains.                                               *)
(***************************************************************************)
\* longest '_embedded.items' array the remote listing returns in the model
MaxItems == 2

\* Python None: an absent query argument, an absent JSON key read with
\* .get(), JSON null
NoneVal == "<None>"

\* values of ?public_key= / form field public_link
PublicKeys == {NoneVal, "", "https://disk.yandex.ru/d/abc"}
\* values of ?path=
Paths == {NoneVal, "", "/docs/a.pdf"}
\* values of ?name=
Names == {NoneVal, "", "a.pdf"}
\* values of ?filter= ("video" and "Folder" stand for unrecognized values)
Filters == {NoneVal, "", "folder", "document", "image", "video", "Folder"}

\* values of item['file']['extension'] (NoneVal: 'file' or 'extension' absent)
Extensions == {NoneVal, "doc", "docx", "pdf", "txt", "xls", "xlsx", "ppt", "pptx",
               "jpg", "jpeg", "png", "gif", "bmp", "PDF", "Jpg", "exe"}

\* the entries the remote listing can return, as the pair of item['type']
\* (NoneVal: key absent) and the extension: every file entry, and directory
\* and untyped entries with and without an extension
Items ==
    {[type |-> "file", extension |-> e] : e \in Extensions}
    \cup {[type |-> t, extension |-> e] : t \in {"dir", NoneVal}, e \in {NoneVal, "pdf", "jpg"}}

ItemLists == UNION {[1..n -> Items] : n \in 0..MaxItems}

\* values of the 'href' key of the download-href answer (NoneVal: null or absent)
Hrefs == {NoneVal, "", "https://downloader.disk.yandex.ru/f1", "https://downloader.disk.yandex.ru/f2"}
\* byte payloads served at an href
Contents == {"", "bytes-1", "bytes-2"}

\* HTTP status classes of a response object that requests.get returned
\* ("3xx": a 3xx answer that requests does not follow, e.g. 300 or 304)
Statuses == {"2xx", "3xx", "4xx", "5xx"}

(***************************************************************************)
(* JSON bodies.  shape: "null" (JSON null), "empty_obj" ({}), "object" (an *)
(* object with at least one key).  embedded: "absent" (no '_embedded'),    *)
(* "no_items" ('_embedded' without 'items'), "items".                      *)
(***************************************************************************)
Body(shape, embedded, items, href, content) ==
    [shape |-> shape, embedded |-> embedded, items |-> items, href |-> href,
     content |-> content]

NoBody == Body("null", "absent", <<>>, NoneVal, "")

ListingBodies ==
    {NoBody, Body("empty_obj", "absent", <<>>, NoneVal, ""),
     Body("object", "absent", <<>>, NoneVal, ""),
     Body("object", "no_items", <<>>, NoneVal, "")}
    \cup {Body("object", "items", s, NoneVal, "") : s \in ItemLists}

HrefBodies ==
    {NoBody, Body("empty_obj", "absent", <<>>, NoneVal, "")}
    \cup {Body("object", "absent", <<>>, h, "") : h \in Hrefs}

FileBodies == {Body("null", "absent", <<>>, NoneVal, c) : c \in Contents}

\* what the remote side does with one outbound call: "transport" is a
\* connection error or timeout (requests.get raises, no response object),
\* "http" is a response object with a status and a body
Response(kind, status, body) == [kind |-> kind, status |-> status, body |-> body]

TransportFailure == Response("transport", NoneVal, NoBody)

ListingResponses ==
    {TransportFailure}
    \cup {Response("http", s, NoBody) : s \in {"4xx", "5xx"}}
    \cup {Response("http", "2xx", b) : b \in ListingBodies}
    \cup {Response("http", "3xx", b) : b \in {x \in ListingBodies : Len(x.items) <= 1}}

HrefResponses ==
    {TransportFailure} \cup {Response("http", s, b) : s \in Statuses, b \in HrefBodies}

FileResponses ==
    {TransportFailure} \cup {Response("http", s, b) : s \in Statuses, b \in FileBodies}

(***************************************************************************)
(* Program constants and Python/library semantics used by the handlers.    *)
(***************************************************************************)
YANDEX_DISK_API_BASE == "https://cloud-api.yandex.net/v1/disk/public/resources"
YANDEX_DISK_DOWNLOAD_URL == "https://cloud-api.yandex.net/v1/disk/public/resources/download"
limit == 1000
offset == 0

\* Python truth value of a str-or-None
Truthy(v) == v \notin {NoneVal, ""}

\* request.args.get(key, default)
ArgGet(v, default) == IF v = NoneVal THEN default ELSE v

\* response.raise_for_status(): TRUE iff it raises HTTPError, which requests
\* does for 4xx and 5xx statuses only
raise_for_status(response) == response.status \in {"4xx", "5xx"}

\* one outbound requests.get, with the answer the remote side gave
Call(url, public_key, path, lim, off, response) ==
    [url |-> url, public_key |-> public_key, path |-> path, limit |-> lim,
     offset |-> off, response |-> response]

\* what a helper hands back: the exception that left it ("none": it
\* returned) and the value returned
Returned(value) == [raised |-> "none", value |-> value]
Raised(exc) == [raised |-> exc, value |-> NoBody]

\* get_public_resources: the except clause reads the local 'response', which
\* is unbound when requests.get itself raised; that read raises
\* UnboundLocalError out of the handler of RequestException
get_public_resources(response) ==
    IF response.kind = "transport" THEN Raised("UnboundLocalError")
    ELSE IF raise_for_status(response) THEN Returned(NoBody)
    ELSE Returned(response.body)

\* 'not resources': None and the empty dict are both false
ResourcesFalsy(resources) == resources.shape \in {"null", "empty_obj"}

\* resources.get('_embedded', {}).get('items', [])
EmbeddedItems(resources) ==
    IF resources.embedded = "items" THEN resources.items ELSE <<>>

doc_types == {"doc", "docx", "pdf", "txt", "xls", "xlsx", "ppt", "pptx"}
img_types == {"jpg", "jpeg", "png", "gif", "bmp"}

\* variant: the filter value compared without regard to case
Keeps_anyCase(item, filter_type) ==
    IF filter_type \in {"folder", "Folder"} THEN item.type = "dir"
    ELSE IF filter_type = "document"
        THEN item.type = "file" /\ item.extension \in doc_types
    ELSE IF filter_type = "image"
        THEN item.type = "file" /\ item.extension \in img_types
    ELSE TRUE

\* variant: document and image test the extension but not the entry type
Keeps_extOnly(item, filter_type) ==
    IF filter_type = "folder" THEN item.type = "dir"
    ELSE IF filter_type = "document" THEN item.extension \in doc_types
    ELSE IF filter_type = "image" THEN item.extension \in img_types
    ELSE TRUE

\* the condition of the list comprehension of each branch; no branch is
\* taken for any other filter value
Keeps(item, filter_type) ==
    IF filter_type = "folder" THEN item.type = "dir"
    ELSE IF filter_type = "document"
        THEN item.type = "file" /\ item.extension \in doc_types
    ELSE IF filter_type = "image"
        THEN item.type = "file" /\ item.extension \in img_types
    ELSE TRUE

\* list.remove(x): drops the first element equal to x
RECURSIVE RemoveFirst(_, _)
RemoveFirst(items, x) ==
    IF items = <<>> THEN <<>>
    ELSE IF Head(items) = x THEN Tail(items)
    ELSE <<Head(items)>> \o RemoveFirst(Tail(items), x)

\* for i, item in enumerate(items): if not keep(item): items.remove(item)
RECURSIVE RemoveLoop(_, _, _)
RemoveLoop(items, i, filter_type) ==
    IF i > Len(items) THEN items
    ELSE IF Keeps(items[i], filter_type) THEN RemoveLoop(items, i + 1, filter_type)
    ELSE RemoveLoop(RemoveFirst(items, items[i]), i + 1, filter_type)

\* variant: the filter removes rejected entries from the list it iterates
FilterItems_removeWhileIterating(items, filter_type) == RemoveLoop(items, 1, filter_type)

\* [item for item in items if ...], evaluated front to back
RECURSIVE FilterItems(_, _)
FilterItems(items, filter_type) ==
    IF items = <<>> THEN <<>>
    ELSE LET rest == FilterItems(Tail(items), filter_type)
         IN  IF Keeps(Head(items), filter_type) THEN <<Head(items)>> \o rest ELSE rest

\* get_download_href: the value of data.get('href'), None on HTTPError;
\* data.get on JSON null raises AttributeError, and the except clause has
\* the same unbound 'response' as get_public_resources
get_download_href(response) ==
    IF response.kind = "transport" THEN Raised("UnboundLocalError")
    ELSE IF raise_for_status(response) THEN Returned(NoneVal)
    ELSE IF response.body.shape = "null" THEN Raised("AttributeError")
    ELSE Returned(response.body.href)

\* variant: only public_key is required
AllPresent_keyOnly(public_key, path, name) == Truthy(public_key)

\* all([public_key, path, name])
AllPresent(public_key, path, name) ==
    Truthy(public_key) /\ Truthy(path) /\ Truthy(name)

\* variant: 'href is None' in place of 'not href'
HrefFalsy_isNone(href) == href = NoneVal

\* 'not href' in download
HrefFalsy(href) == ~Truthy(href)

\* variant: the bytes are fetched from the API endpoint again
FetchUrl_api(href) == YANDEX_DISK_DOWNLOAD_URL

\* the URL download fetches the bytes from
FetchUrl(href) == href

\* download_name passed to send_file
DownloadName(name) == name

(***************************************************************************)
(* Results of a view function.                                             *)
(***************************************************************************)
Result(kind, flash, endpoint, public_key, path, items, download_name, content, error) ==
    [kind |-> kind, flash |-> flash, endpoint |-> endpoint, public_key |-> public_key,
     path |-> path, items |-> items, download_name |-> download_name,
     content |-> content, error |-> error]

NoResult == Result("none", NoneVal, NoneVal, NoneVal, NoneVal, <<>>, NoneVal, "", NoneVal)

\* render_template(template, ...)
Render(template, items, public_key, path) ==
    Result("render", NoneVal, template, public_key, path, items, NoneVal, "", NoneVal)

\* flash(message, "danger"); return redirect(url_for(endpoint, public_key=...))
FlashRedirect(endpoint, public_key) ==
    Result("redirect", "danger", endpoint, public_key, NoneVal, <<>>, NoneVal, "", NoneVal)

\* return redirect(url_for(endpoint, public_key=...)) without a flash
Redirect(endpoint, public_key) ==
    Result("redirect", NoneVal, endpoint, public_key, NoneVal, <<>>, NoneVal, "", NoneVal)

\* send_file(BytesIO(content), download_name=name, as_attachment=True)
Attachment(content, name) ==
    Result("attachment", NoneVal, NoneVal, NoneVal, NoneVal, <<>>, name, content, NoneVal)

\* an exception left the view function
Unhandled(exc) ==
    Result("exception", NoneVal, NoneVal, NoneVal, NoneVal, <<>>, NoneVal, "", exc)

Request(route, method, public_key, path, filter, name, public_link) ==
    [route |-> route, method |-> method, public_key |-> public_key, path |-> path,
     filter |-> filter, name |-> name, public_link |-> public_link]

NoRequest == Request(NoneVal, NoneVal, NoneVal, NoneVal, NoneVal, NoneVal, NoneVal)

(***************************************************************************)
(* The view functions.                                                     *)
(***************************************************************************)
Init ==
    /\ pc = "idle"
    /\ request = NoRequest
    /\ calls = <<>>
    /\ result = NoResult

\* index(), GET and POST
index(method, public_link) ==
    /\ pc = "idle"
    /\ pc' = "done"
    /\ request' = Request("/", method, NoneVal, NoneVal, NoneVal, NoneVal, public_link)
    /\ calls' = <<>>
    /\ result' =
        IF method = "POST"
        THEN IF ~Truthy(public_link) THEN FlashRedirect("index", NoneVal)
             ELSE Redirect("files", public_link)
        ELSE Render("index.html", <<>>, NoneVal, NoneVal)

\* the result of files() once the listing call has been answered
FilesResult(public_key, path, filter_type, response) ==
    LET got == get_public_resources(response)
        resources == got.value
    IN  IF got.raised # "none" THEN Unhandled(got.raised)
        ELSE IF ResourcesFalsy(resources) THEN FlashRedirect("index", NoneVal)
        ELSE Render("files.html", FilterItems(EmbeddedItems(resources), filter_type),
                    public_key, path)

\* files()
files(public_key, path_arg, filter_arg, response) ==
    LET path == ArgGet(path_arg, "")
        filter_type == ArgGet(filter_arg, "")
    IN  /\ pc = "idle"
        /\ pc' = "done"
        /\ request' = Request("/files", "GET", public_key, path_arg, filter_arg,
                              NoneVal, NoneVal)
        /\ IF ~Truthy(public_key)
           THEN /\ calls' = <<>>
                /\ result' = FlashRedirect("index", NoneVal)
           ELSE /\ calls' = <<Call(YANDEX_DISK_API_BASE, public_key, path, limit,
                                   offset, response)>>
                /\ result' = FilesResult(public_key, path, filter_type, response)

\* the result of the try block of download()
FetchResult(public_key, name, file_response) ==
    IF file_response.kind = "transport" \/ raise_for_status(file_response)
    THEN FlashRedirect("files", public_key)
    ELSE Attachment(file_response.body.content, DownloadName(name))

\* download()
download(public_key, path, name, response, file_response) ==
    LET got == get_download_href(response)
        href == got.value
    IN  /\ pc = "idle"
        /\ pc' = "done"
        /\ request' = Request("/download", "GET", public_key, path, NoneVal, name,
                              NoneVal)
        /\ IF ~AllPresent(public_key, path, name)
           THEN /\ calls' = <<>>
                /\ result' = FlashRedirect("files", public_key)
           ELSE IF got.raised # "none"
           THEN /\ calls' = <<Call(YANDEX_DISK_DOWNLOAD_URL, public_key, path,
                                   NoneVal, NoneVal, response)>>
                /\ result' = Unhandled(got.raised)
           ELSE IF HrefFalsy(href)
           THEN /\ calls' = <<Call(YANDEX_DISK_DOWNLOAD_URL, public_key, path,
                                   NoneVal, NoneVal, response)>>
                /\ result' = FlashRedirect("files", public_key)
           ELSE /\ calls' = <<Call(YANDEX_DISK_DOWNLOAD_URL, public_key, path,
                                   NoneVal, NoneVal, response),
                              Call(FetchUrl(href), NoneVal, NoneVal, NoneVal,
                                   NoneVal, file_response)>>
                /\ result' = FetchResult(public_key, name, file_response)

\* page_not_found(): any route that matches no view function
page_not_found ==
    /\ pc = "idle"
    /\ pc' = "done"
    /\ request' = Request("/missing", "GET", NoneVal, NoneVal, NoneVal, NoneVal, NoneVal)
    /\ calls' = <<>>
    /\ result' = Render("404.html", <<>>, NoneVal, NoneVal)

\* app.run(): the response is sent and the next request is awaited; nothing
\* of a request outlives it
run ==
    /\ pc = "done"
    /\ pc' = "idle"
    /\ request' = NoRequest
    /\ calls' = <<>>
    /\ result' = NoResult

\* a request is dispatched only when no other one is being served
Next ==
    \/ /\ pc = "idle"
       /\ \E method \in {"GET", "POST"}, public_link \in PublicKeys :
            index(method, public_link)
    \/ /\ pc = "idle"
       /\ \E public_key \in PublicKeys, path \in Paths, filter \in Filters,
             response \in ListingResponses :
            files(public_key, path, filter, response)
    \/ /\ pc = "idle"
       /\ \E public_key \in PublicKeys, path \in Paths, name \in Names,
             response \in HrefResponses, file_response \in FileResponses :
            download(public_key, path, name, response, file_response)
    \/ page_not_found
    \/ run

Spec == Init /\ [][Next]_vars

(***************************************************************************)
(* Vocabulary of the properties.                                           *)
(***************************************************************************)
Absent(v) == v = NoneVal \/ v = ""

FilesServed == pc = "done" /\ request.route = "/files"
DownloadServed == pc = "done" /\ request.route = "/download"

\* the listing call was issued (public_key non-empty) and answered
ListingAnswered == FilesServed /\ ~Absent(request.public_key) /\ Len(calls) >= 1

\* all three download parameters are present
DownloadComplete ==
    /\ DownloadServed
    /\ ~Absent(request.public_key) /\ ~Absent(request.path) /\ ~Absent(request.name)

\* a call failed: no response object, or a status outside 2xx
Failed(r) == r.kind = "transport" \/ r.status # "2xx"

\* a call succeeded with a JSON object as body
SucceededWithObject(r) ==
    r.kind = "http" /\ r.status = "2xx" /\ r.body.shape \in {"empty_obj", "object"}

DangerRedirectTo(endpoint, public_key) ==
    /\ result.kind = "redirect"
    /\ result.flash = "danger"
    /\ result.endpoint = endpoint
    /\ result.public_key = public_key

\* the file page rendered with the given entries
FilePageWith(items) ==
    /\ result.kind = "render"
    /\ result.endpoint = "files.html"
    /\ result.flash = NoneVal
    /\ result.items = items

Categories == {"folder", "document", "image"}

(***************************************************************************)
(* C1.  A /files request with a non-empty public_key whose listing call    *)
(* fails (transport failure or non-2xx status) ends with a danger flash    *)
(* and a redirect to the index page, renders no entries, issues exactly    *)
(* one listing call and lets no exception escape.                          *)
(***************************************************************************)
C1_ListingFailureRedirectsToIndex ==
    (ListingAnswered /\ Failed(calls[1].response))
        => /\ DangerRedirectTo("index", NoneVal)
           /\ result.items = <<>>
           /\ Len(calls) = 1
           /\ result.kind # "exception"

(***************************************************************************)
(* C2.  A /download request in which public_key, path or name is absent or *)
(* empty issues no outbound call and ends with a danger flash and a        *)
(* redirect, never with an attachment.                                     *)
(***************************************************************************)
C2_MissingParamsNoCall ==
    (DownloadServed /\ (Absent(request.public_key) \/ Absent(request.path)
                            \/ Absent(request.name)))
        => /\ calls = <<>>
           /\ result.kind = "redirect"
           /\ result.flash = "danger"
           /\ result.kind # "attachment"

C2_Witness ==
    /\ DownloadServed
    /\ ~Absent(request.public_key) /\ request.path = "" /\ ~Absent(request.name)
    /\ calls = <<>>
    /\ result.kind = "redirect"

C4_HrefFailureRedirectsToFiles ==
    (DownloadComplete /\ Len(calls) >= 1 /\ Failed(calls[1].response))
        => /\ DangerRedirectTo("files", request.public_key)
           /\ Len(calls) = 1
           /\ result.kind # "exception"

(***************************************************************************)
(* C5.  Once a /download request has obtained a non-empty href: if the     *)
(* byte fetch fails (transport failure or non-2xx status) the request ends *)
(* with a danger flash and a redirect to /files with the same public_key;  *)
(* otherwise it returns the whole fetched payload as an attachment named   *)
(* exactly as the request's name.  There is no other outcome.              *)
(***************************************************************************)
C5_FetchFailsOrAttachment ==
    (DownloadServed /\ Len(calls) = 2)
        => IF Failed(calls[2].response)
           THEN DangerRedirectTo("files", request.public_key)
           ELSE /\ result.kind = "attachment"
                /\ result.content = calls[2].response.body.content
                /\ result.download_name = request.name

(***************************************************************************)
(* C6.  A /files request whose listing call succeeds with a JSON object    *)
(* that has no embedded items key ('items' missing, '_embedded' missing,   *)
(* or no key at all) renders the file page with zero entries: no danger    *)
(* flash, no redirect to the index.                                        *)
(***************************************************************************)
C6_AbsentItemsRendersEmpty ==
    (/\ ListingAnswered
     /\ SucceededWithObject(calls[1].response)
     /\ calls[1].response.body.embedded # "items")
        => FilePageWith(<<>>)

(***************************************************************************)
(* C7.  For a successful listing answer carrying an embedded items array   *)
(* and a filter that is absent, empty or none of folder, document, image,  *)
(* the rendered entry list is that array: same length, same elements, same *)
(* order.                                                                  *)
(***************************************************************************)
C7_NoFilterRendersAllItems ==
    (/\ ListingAnswered
     /\ SucceededWithObject(calls[1].response)
     /\ calls[1].response.body.embedded = "items"
     /\ request.filter \notin Categories)
        => FilePageWith(calls[1].response.body.items)

C7_Witness ==
    /\ ListingAnswered
    /\ request.filter = "Folder"
    /\ result.kind = "render"
    /\ Len(result.items) = 2
    /\ result.items[1].type = "file"
    /\ result.items[2].type = "dir"

(***************************************************************************)
(* C8.  For each category the rendered list is the order-preserving        *)
(* sub-list of the listed entries that satisfy the category's predicate:   *)
(* folder keeps exactly the 'dir' entries, document exactly the 'file'     *)
(* entries with extension doc, docx, pdf, txt, xls, xlsx, ppt or pptx,     *)
(* image exactly the 'file' entries with extension jpg, jpeg, png, gif or  *)
(* bmp; matching is case-sensitive and an entry without extension is never *)
(* a document or an image.                                                 *)
(***************************************************************************)
C8_FilterKeepsExactlyCategory ==
    (/\ ListingAnswered
     /\ SucceededWithObject(calls[1].response)
     /\ calls[1].response.body.embedded = "items"
     /\ request.filter \in Categories)
        => LET listed == calls[1].response.body.items
               InCategory(item) ==
                   \/ /\ request.filter = "folder"
                      /\ item.type = "dir"
                   \/ /\ request.filter = "document"
                      /\ item.type = "file"
                      /\ \E e \in {"doc", "docx", "pdf", "txt", "xls", "xlsx", "ppt",
                                   "pptx"} : item.extension = e
                   \/ /\ request.filter = "image"
                      /\ item.type = "file"
                      /\ \E e \in {"jpg", "jpeg", "png", "gif", "bmp"} :
                            item.extension = e
           IN  /\ FilePageWith(SelectSeq(listed, InCategory))
               /\ \A i \in 1..Len(result.items) :
                    /\ request.filter # "folder"
                        => result.items[i].extension \notin {NoneVal, "PDF", "Jpg"}
                    /\ \E j \in 1..Len(listed) : listed[j] = result.items[i]

C8_Witness ==
    /\ ListingAnswered
    /\ request.filter = "document"
    /\ Len(calls[1].response.body.items) = 2
    /\ calls[1].response.body.items[1] = [type |-> "dir", extension |-> "pdf"]
    /\ calls[1].response.body.items[2] = [type |-> "file", extension |-> "pdf"]
    /\ result.items = <<[type |-> "file", extension |-> "pdf"]>>

(***************************************************************************)
(* C9.  Filtering is idempotent: filtering the rendered (already filtered) *)
(* list again with the same filter value yields the same list.             *)
(***************************************************************************)
C9_FilterIdempotent ==
    (FilesServed /\ result.kind = "render")
        => FilterItems(result.items, ArgGet(request.filter, "")) = result.items

C9_Witness ==
    /\ FilesServed
    /\ result.kind = "render"
    /\ request.filter = "image"
    /\ Len(calls[1].response.body.items) = 2
    /\ Len(result.items) = 1

(***************************************************************************)
(* C10.  A request issues at most two outbound calls, one after the other, *)
(* and ends: index and unknown routes issue none, /files at most the       *)
(* listing call, /download at most the download-href call followed by the  *)
(* byte fetch, which is issued only when the first call returned a         *)
(* non-empty href and goes to exactly that href.  No call is repeated.     *)
(***************************************************************************)
C10_AtMostTwoSequentialCalls ==
    pc = "done"
        => /\ result.kind # "none"
           /\ Len(calls) <= 2
           /\ request.route \notin {"/files", "/download"} => calls = <<>>
           /\ request.route = "/files"
                => /\ Len(calls) <= 1
                   /\ \A i \in 1..Len(calls) : calls[i].url = YANDEX_DISK_API_BASE
           /\ request.route = "/download"
                => /\ Len(calls) >= 1 => calls[1].url = YANDEX_DISK_DOWNLOAD_URL
                   /\ Len(calls) = 2
                        => /\ calls[1].response.kind = "http"
                           /\ ~Absent(calls[1].response.body.href)
                           /\ calls[2].url = calls[1].response.body.href
           /\ \A i, j \in 1..Len(calls) : i # j => calls[i].url # calls[j].url

C10_Witness ==
    /\ DownloadServed
    /\ Len(calls) = 2
    /\ calls[2].url = "https://downloader.disk.yandex.ru/f2"

====
